---- MODULE Spec2Model ----
(***************************************************************************)
(* Model of the chat UI component (frontend/src/App.js): the React state   *)
(* of App, the two effects/handlers that talk to the relay service         *)
(* (checkOpenAIStatus, sendMessage), the DOM events that invoke them, and  *)
(* the /openai-status and /chat requests in flight.                        *)
(*                                                                         *)
(* Strings typed by the user are sequences of characters so that           *)
(* String.prototype.trim is computed, not assumed.                         *)
(***************************************************************************)
EXTENDS Integers, Sequences, FiniteSets, TLC

VARIABLES
    messages,        \* useState: list of displayed chat entries
    inputMessage,    \* useState: text of the textarea
    isLoading,       \* useState: loading flag
    openaiStatus,    \* useState: status flag
    mounted,         \* whether the mount effect has run
    statusRequests,  \* /openai-status requests issued, with their progress
    chatRequests,    \* /chat requests issued, one per sendMessage that passed its guard
    sendCalls,       \* number of sendMessage invocations so far
    clock            \* Date.now()

vars == <<messages, inputMessage, isLoading, openaiStatus, mounted,
          statusRequests, chatRequests, sendCalls, clock>>

----------------------------------------------------------------------------
(* Bounds *)

MaxCalls == 2      \* sendMessage invocations in one behaviour
MaxTicks == 1      \* milliseconds the clock advances in one behaviour

----------------------------------------------------------------------------
(* Strings *)

\* texts the user may put into the textarea: empty, whitespace only, plain,
\* and one with surrounding whitespace
Strings == {<<>>, <<" ", "\n">>, <<"a">>, <<" ", "a", " ">>}

IsWhitespace(c) == c \in {" ", "\n", "\t"}

RECURSIVE TrimStart(_)
TrimStart(s) ==
    IF s = <<>> THEN <<>>
    ELSE IF IsWhitespace(Head(s)) THEN TrimStart(Tail(s))
    ELSE s

RECURSIVE TrimEnd(_)
TrimEnd(s) ==
    IF s = <<>> THEN <<>>
    ELSE IF IsWhitespace(s[Len(s)]) THEN TrimEnd(SubSeq(s, 1, Len(s) - 1))
    ELSE s

Trim_Identity(s) == s

\* String.prototype.trim
Trim(s) == TrimEnd(TrimStart(s))

\* the greeting shown at start, the apology shown on failure
Greeting == <<"greeting">>
Apology == <<"apology">>

\* texts the relay service may return in data.response
Replies == {<<"r">>}

\* new Date().toLocaleTimeString('th-TH'): wall-clock time to the second
toLocaleTimeString(t) == ToString(t \div 1000)

----------------------------------------------------------------------------
(* Entries of the message list *)

InitialId == 1

InitialMessage ==
    [id |-> InitialId, text |-> Greeting, isUser |-> FALSE,
     timestamp |-> toLocaleTimeString(InitialId + 1)]

userMessage_NotUser(t, s) ==
    [id |-> t, text |-> s, isUser |-> FALSE, timestamp |-> toLocaleTimeString(t)]

userMessage(t, s) ==
    [id |-> t, text |-> s, isUser |-> TRUE, timestamp |-> toLocaleTimeString(t)]

botMessage(t, r) ==
    [id |-> t + 1, text |-> r, isUser |-> FALSE, timestamp |-> toLocaleTimeString(t)]

errorMessage_RawError(t) ==
    [id |-> t + 1, text |-> <<"Failed to get response">>,
     timestamp |-> toLocaleTimeString(t)]

\* the catch block's entry: it has no isUser field
errorMessage(t) ==
    [id |-> t + 1, text |-> Apology, timestamp |-> toLocaleTimeString(t)]

\* setMessages(prev => [...prev, m])
AppendMessage(prev, m) == Append(prev, m)

----------------------------------------------------------------------------
(* Rendering: what the JSX shows for the current state *)

ShowsOpenAI == openaiStatus = "connected"

ShowsBasicMode == openaiStatus = "not_configured"

TypingIndicatorShown == isLoading

TextareaDisabled_Never == FALSE

TextareaDisabled == isLoading

ButtonDisabled == Trim(inputMessage) = <<>> \/ isLoading

\* message.isUser ? ... : ...  (a missing field is falsy)
RendersAsUser(m) == "isUser" \in DOMAIN m /\ m.isUser = TRUE

----------------------------------------------------------------------------
(* Initial state: the useState initial values, before the mount effect *)

Init ==
    /\ messages = <<InitialMessage>>
    /\ inputMessage = <<>>
    /\ isLoading = FALSE
    /\ openaiStatus = "checking"
    /\ mounted = FALSE
    /\ statusRequests = <<>>
    /\ chatRequests = <<>>
    /\ sendCalls = 0
    /\ clock = InitialId + 1

----------------------------------------------------------------------------
(* Status check *)

StatusOf_Swapped(available) == IF available THEN "not_configured" ELSE "connected"

\* data.openai_available ? 'connected' : 'not_configured'
StatusOf(available) == IF available THEN "connected" ELSE "not_configured"

Mount_EveryRender ==
    /\ Len(statusRequests) < 2
    /\ mounted' = TRUE
    /\ statusRequests' = Append(statusRequests, [state |-> "fetch", result |-> "none"])
    /\ UNCHANGED <<messages, inputMessage, isLoading, openaiStatus,
                   chatRequests, sendCalls, clock>>

\* useEffect(() => { checkOpenAIStatus(); }, []) up to the await of fetch
Mount ==
    /\ ~mounted
    /\ mounted' = TRUE
    /\ statusRequests' = Append(statusRequests, [state |-> "fetch", result |-> "none"])
    /\ UNCHANGED <<messages, inputMessage, isLoading, openaiStatus,
                   chatRequests, sendCalls, clock>>

\* fetch('/openai-status') settles: rejected, non-OK response, or OK response
StatusFetchSettle(i, outcome) ==
    /\ i \in 1..Len(statusRequests)
    /\ statusRequests[i].state = "fetch"
    /\ IF outcome = "ok"
       THEN /\ statusRequests' = [statusRequests EXCEPT ![i].state = "json"]
            /\ UNCHANGED openaiStatus
       ELSE /\ statusRequests' =
                  [statusRequests EXCEPT ![i] = [state |-> "done", result |-> outcome]]
            /\ openaiStatus' = "error"
    /\ UNCHANGED <<messages, inputMessage, isLoading, mounted,
                   chatRequests, sendCalls, clock>>

\* response.json() settles: throws, or yields a body with openai_available
StatusJsonSettle(i, outcome) ==
    /\ i \in 1..Len(statusRequests)
    /\ statusRequests[i].state = "json"
    /\ statusRequests' =
          [statusRequests EXCEPT ![i] = [state |-> "done", result |-> outcome]]
    /\ openaiStatus' =
          IF outcome = "json_error" THEN "error"
          ELSE StatusOf(outcome = "available")
    /\ UNCHANGED <<messages, inputMessage, isLoading, mounted,
                   chatRequests, sendCalls, clock>>

----------------------------------------------------------------------------
(* Chat *)

\* sendMessage up to the await of fetch('/chat')
sendMessage ==
    /\ sendCalls < MaxCalls
    /\ sendCalls' = sendCalls + 1
    /\ IF Trim(inputMessage) = <<>>
       THEN UNCHANGED <<messages, inputMessage, isLoading, chatRequests>>
       ELSE /\ messages' = AppendMessage(messages, userMessage(clock, inputMessage))
            /\ inputMessage' = <<>>
            /\ isLoading' = TRUE
            /\ chatRequests' =
                  Append(chatRequests,
                         [message |-> inputMessage, state |-> "fetch",
                          result |-> "none", response |-> <<>>])
    /\ UNCHANGED <<openaiStatus, mounted, statusRequests, clock>>

\* onClick of the send button
ClickSend ==
    /\ mounted
    /\ ~ButtonDisabled
    /\ sendMessage

\* onKeyPress of the textarea -> handleKeyPress
KeyPress(key, shiftKey) ==
    /\ mounted
    /\ ~TextareaDisabled
    /\ key = "Enter" /\ ~shiftKey
    /\ sendMessage

\* onChange of the textarea
OnChange(value) ==
    /\ mounted
    /\ ~TextareaDisabled
    /\ inputMessage' = value
    /\ UNCHANGED <<messages, isLoading, openaiStatus, mounted,
                   statusRequests, chatRequests, sendCalls, clock>>

CatchFinally_NoFinally(i, outcome) ==
    /\ messages' = AppendMessage(messages, errorMessage(clock))
    /\ UNCHANGED isLoading
    /\ chatRequests' =
          [chatRequests EXCEPT ![i].state = "done", ![i].result = outcome]

CatchFinally_NoEntry(i, outcome) ==
    /\ UNCHANGED messages
    /\ isLoading' = FALSE
    /\ chatRequests' =
          [chatRequests EXCEPT ![i].state = "done", ![i].result = outcome]

\* catch (error) { ... } finally { setIsLoading(false) }
CatchFinally(i, outcome) ==
    /\ messages' = AppendMessage(messages, errorMessage(clock))
    /\ isLoading' = FALSE
    /\ chatRequests' =
          [chatRequests EXCEPT ![i].state = "done", ![i].result = outcome]

\* fetch('/chat') settles: rejected, non-OK response, or OK response
ChatFetchSettle(i, outcome) ==
    /\ i \in 1..Len(chatRequests)
    /\ chatRequests[i].state = "fetch"
    /\ IF outcome = "ok"
       THEN /\ chatRequests' = [chatRequests EXCEPT ![i].state = "json"]
            /\ UNCHANGED <<messages, isLoading>>
       ELSE CatchFinally(i, outcome)
    /\ UNCHANGED <<inputMessage, openaiStatus, mounted, statusRequests,
                   sendCalls, clock>>

\* response.json() of the /chat response throws
ChatJsonThrows(i) ==
    /\ i \in 1..Len(chatRequests)
    /\ chatRequests[i].state = "json"
    /\ CatchFinally(i, "json_error")
    /\ UNCHANGED <<inputMessage, openaiStatus, mounted, statusRequests,
                   sendCalls, clock>>

\* response.json() of the /chat response yields data with data.response = r
ChatJsonParsed(i, r) ==
    /\ i \in 1..Len(chatRequests)
    /\ chatRequests[i].state = "json"
    /\ messages' = AppendMessage(messages, botMessage(clock, r))
    /\ isLoading' = FALSE
    /\ chatRequests' =
          [chatRequests EXCEPT ![i].state = "done", ![i].result = "ok",
                               ![i].response = r]
    /\ UNCHANGED <<inputMessage, openaiStatus, mounted, statusRequests,
                   sendCalls, clock>>

\* the millisecond clock advances
Tick ==
    /\ clock < InitialId + 1 + MaxTicks
    /\ clock' = clock + 1
    /\ UNCHANGED <<messages, inputMessage, isLoading, openaiStatus, mounted,
                   statusRequests, chatRequests, sendCalls>>

----------------------------------------------------------------------------

ChatSettle ==
    \/ \E i \in 1..Len(chatRequests), o \in {"rejected", "non_ok", "ok"} : ChatFetchSettle(i, o)
    \/ \E i \in 1..Len(chatRequests) : ChatJsonThrows(i)
    \/ \E i \in 1..Len(chatRequests), r \in Replies : ChatJsonParsed(i, r)

Next ==
    \/ Mount
    \/ \E i \in 1..Len(statusRequests), o \in {"rejected", "non_ok", "ok"} : StatusFetchSettle(i, o)
    \/ \E i \in 1..Len(statusRequests), o \in {"json_error", "available", "unavailable"} :
          StatusJsonSettle(i, o)
    \/ ClickSend
    \/ \E key \in {"Enter", "a"}, shiftKey \in BOOLEAN : KeyPress(key, shiftKey)
    \/ \E value \in Strings : OnChange(value)
    \/ \E i \in 1..Len(chatRequests), o \in {"rejected", "non_ok", "ok"} : ChatFetchSettle(i, o)
    \/ \E i \in 1..Len(chatRequests) : ChatJsonThrows(i)
    \/ \E i \in 1..Len(chatRequests), r \in Replies : ChatJsonParsed(i, r)
    \/ Tick

Spec == Init /\ [][Next]_vars

\* every request that was issued eventually settles
LiveSpec == Spec /\ WF_vars(ChatSettle)

----------------------------------------------------------------------------
(* Helpers for the properties *)

Unsettled == {i \in 1..Len(chatRequests) : chatRequests[i].state # "done"}

Settled == {i \in 1..Len(chatRequests) : chatRequests[i].state = "done"}

Failures == {"rejected", "non_ok", "json_error"}

IsPrefix(s, t) == Len(s) <= Len(t) /\ SubSeq(t, 1, Len(s)) = s

\* empty or made of whitespace only
IsBlank(s) == \A k \in 1..Len(s) : IsWhitespace(s[k])

----------------------------------------------------------------------------
(* C1: every sendMessage on a non-blank input appends exactly one user     *)
(* entry carrying the input when it issues its /chat request, and the      *)
(* request, once it settles, has appended exactly one follow-up entry:     *)
(* the response text if the response was OK and parsed, the fixed apology  *)
(* otherwise; whenever requests are unsettled, a state follows in which    *)
(* every issued request has settled with its follow-up.                    *)

C1_Entries ==
    /\ Len(messages) = 1 + Len(chatRequests) + Cardinality(Settled)
    /\ \A i \in 1..Len(chatRequests) :
          LET q == chatRequests[i] IN
          /\ 2 * i <= Len(messages)
          /\ messages[2 * i].text = q.message
          /\ RendersAsUser(messages[2 * i])
          /\ ~IsBlank(q.message)
          /\ q.state = "done" =>
                /\ 2 * i + 1 <= Len(messages)
                /\ ~RendersAsUser(messages[2 * i + 1])
                /\ messages[2 * i + 1].text =
                      IF q.result = "ok" THEN q.response ELSE Apology

C1_SendReply ==
    /\ []C1_Entries
    /\ (Unsettled # {}) ~> (Unsettled = {})

C1_Witness ==
    /\ \E i \in Settled : chatRequests[i].result = "ok"
    /\ \E i \in Settled : chatRequests[i].result \in Failures

(* C2: while the input is empty or whitespace-only the send button is      *)
(* disabled, no step issues a /chat request, and an invocation of          *)
(* sendMessage (by Enter) leaves the message list, the input text and the  *)
(* loading flag unchanged.                                                 *)

C2_BlankNeverSends ==
    [][IsBlank(inputMessage) =>
          /\ ButtonDisabled
          /\ Len(chatRequests') = Len(chatRequests)
          /\ sendCalls' # sendCalls =>
                UNCHANGED <<messages, inputMessage, isLoading>>]_vars

C2_Witness ==
    /\ inputMessage # <<>>
    /\ IsBlank(inputMessage)
    /\ sendCalls > Len(chatRequests)

(* C3: "Basic Mode" is displayed exactly when an OK /openai-status         *)
(* response with openai_available = false has been received, the flag is   *)
(* then 'not_configured', and the "OpenAI" and "Basic Mode" indicators are *)
(* never displayed together.                                               *)

C3_BasicMode ==
    /\ ~(ShowsOpenAI /\ ShowsBasicMode)
    /\ ShowsBasicMode <=>
          \E i \in 1..Len(statusRequests) :
             statusRequests[i] = [state |-> "done", result |-> "unavailable"]
    /\ ShowsBasicMode => openaiStatus = "not_configured" /\ ~ShowsOpenAI

C3_Witness ==
    /\ ShowsBasicMode
    /\ \E i \in 1..Len(statusRequests) : statusRequests[i].result = "unavailable"

(* C4: the step in which a /chat request fails appends exactly one entry,  *)
(* whose text is the fixed apology, keeps all earlier entries, issues no   *)
(* further request and clears the loading flag.                            *)

FailsNow(i) ==
    /\ chatRequests[i].state # "done"
    /\ chatRequests'[i].state = "done"
    /\ chatRequests'[i].result \in Failures

C4_FailureApology ==
    [][\A i \in 1..Len(chatRequests) :
          FailsNow(i) =>
             /\ Len(messages') = Len(messages) + 1
             /\ SubSeq(messages', 1, Len(messages)) = messages
             /\ messages'[Len(messages')].text = Apology
             /\ Len(chatRequests') = Len(chatRequests)
             /\ isLoading' = FALSE]_vars

C4_Witness ==
    \E i \in Settled :
       /\ chatRequests[i].result \in Failures
       /\ messages[2 * i + 1].text = Apology
       /\ ~isLoading

(* C5: the loading flag is true exactly while a /chat request is           *)
(* unsettled; while true the textarea and send button are disabled and the *)
(* typing indicator is shown, and when false the textarea is enabled and   *)
(* the typing indicator hidden.                                            *)

C5_LoadingIffInFlight ==
    /\ isLoading <=> Unsettled # {}
    /\ Unsettled # {} => TextareaDisabled /\ ButtonDisabled /\ TypingIndicatorShown
    /\ Unsettled = {} => ~TextareaDisabled /\ ~TypingIndicatorShown

C5_Witness ==
    /\ ~isLoading
    /\ ~TextareaDisabled
    /\ \E i \in Settled : chatRequests[i].result \in Failures
    /\ \E i \in Settled : chatRequests[i].result = "ok"

(* C6: every entry of the message list has the four fields id, text,       *)
(* isUser (a boolean) and timestamp.                                       *)

C6_AllFields ==
    \A k \in 1..Len(messages) :
       /\ DOMAIN messages[k] = {"id", "text", "isUser", "timestamp"}
       /\ messages[k].isUser \in BOOLEAN

(* C7: the ids of the message list are strictly increasing in list order.  *)

C7_IdsIncreasing ==
    \A k \in 1..(Len(messages) - 1) : messages[k].id < messages[k + 1].id

(* C8: the status flag is one of the four values, at most one              *)
(* /openai-status request is ever issued (exactly one once mounted), the   *)
(* flag is 'checking' until that request settles and then reflects its     *)
(* outcome, and once it has left 'checking' it never changes.              *)

ExpectedStatus(result) ==
    CASE result = "available" -> "connected"
      [] result = "unavailable" -> "not_configured"
      [] OTHER -> "error"

C8_StatusState ==
    /\ openaiStatus \in {"checking", "connected", "not_configured", "error"}
    /\ Len(statusRequests) = (IF mounted THEN 1 ELSE 0)
    /\ openaiStatus = "checking" <=>
          \A i \in 1..Len(statusRequests) : statusRequests[i].state # "done"
    /\ \A i \in 1..Len(statusRequests) :
          statusRequests[i].state = "done" =>
             openaiStatus = ExpectedStatus(statusRequests[i].result)

C8_StatusOnce ==
    /\ []C8_StatusState
    /\ [][openaiStatus # "checking" => openaiStatus' = openaiStatus]_vars

C8_Witness ==
    /\ openaiStatus = "connected"
    /\ Settled # {}

(* C9: at most one /chat request is unsettled at any time.                 *)

C9_OneInFlight == Cardinality(Unsettled) <= 1

C9_Witness ==
    /\ Len(chatRequests) >= 2
    /\ Unsettled = {Len(chatRequests)}

(* C10: the message list is the greeting followed by (user entry,          *)
(* follow-up entry) pairs, with a trailing unpaired user entry exactly     *)
(* when a request is in flight; each pair belongs to one send; and every   *)
(* step keeps the previous list as a prefix.                               *)

C10_Alternating ==
    /\ messages[1] = InitialMessage
    /\ \A k \in 2..Len(messages) : RendersAsUser(messages[k]) <=> (k % 2 = 0)
    /\ (Len(messages) % 2 = 0) <=> Unsettled # {}
    /\ \A k \in 2..Len(messages) :
          k % 2 = 0 => messages[k].text = chatRequests[k \div 2].message

C10_AppendOnly ==
    /\ []C10_Alternating
    /\ [][IsPrefix(messages, messages')]_vars

C10_Witness ==
    /\ Len(messages) >= 4
    /\ Len(messages) % 2 = 0
    /\ Unsettled # {}

====
